---- MODULE Spec2Model ----
(***************************************************************************)
(* ColumnProperty / RowItem / SQLContainer of ColumnTestMAIN.py.           *)
(*                                                                         *)
(* A ColumnProperty is a validated value holder; a RowItem owns            *)
(* properties and forwards their change notifications to its container.    *)
(* The container is the recording sink of the tests: it keeps the list of  *)
(* item_change_notification calls it received, with their argument.        *)
(***************************************************************************)
EXTENDS Integers, Sequences, FiniteSets

\* ------------------------------------------------------------------ bounds
\* Cap on the number of successful set_value calls in one behaviour.
MaxCalls == 2
\* Longest property list handed to RowItem.__init__.
MaxProps == 2

\* ------------------------------------------------------- object identities
Cells  == {"c1", "c2"}
Owners == {"r1", "r2"}
Sinks  == {"s1", "s2"}

\* ------------------------------------------------------------ Python values
None == "None"
\* Values handed to the constructor (default_value) and to set_value.
Values == {None, "Ville", "Kalle", "7", "True"}
\* type(v) of a non-None value.
TypeOf(v) == IF v = "True" THEN "bool" ELSE IF v = "7" THEN "int" ELSE "str"
\* The method resolution order of a type: bool is a subclass of int.
Mro(t) == IF t = "bool" THEN {"bool", "int", "object"} ELSE {t, "object"}
\* isinstance(v, t)
IsInstance(v, t) == t \in Mro(TypeOf(v))
\* Mutant: the id is compared with None only, the empty string passes.
Truthy_NotNone(x) == x # None
\* bool(x) of a property id: None and the empty string are falsy.
Truthy(x) == x \notin {None, ""}

\* Arguments the constructor is tried with.
PropertyIds == {None, "", "NAME"}
ValueTypes  == {None, "str", "int"}

\* An object that has not been constructed.
NoCell == [absent |-> TRUE]
NoRow  == [absent |-> TRUE]
\* No call made yet.
NoCall == [op |-> "none", cell |-> None, id |-> None, vtype |-> None,
           arg |-> None, raised |-> "none", pre |-> NoCell,
           calls |-> [s \in Sinks |-> <<>>]]

VARIABLES
    cells,   \* cell identity -> the ColumnProperty object's fields, or NoCell
    rows,    \* owner identity -> the RowItem object's fields, or NoRow
    calls,   \* sink -> sequence of item_change_notification arguments
    hist,    \* cell identity -> default given at construction, successful calls
    last     \* the most recent call: its arguments, what it raised, the state before

vars == <<cells, rows, calls, hist, last>>

Live(c) == cells[c] # NoCell
LiveRow(r) == rows[r] # NoRow

RECURSIVE SumOver(_, _)
SumOver(f, S) == IF S = {} THEN 0
                 ELSE LET x == CHOOSE y \in S : TRUE
                      IN  f[x] + SumOver(f, S \ {x})

\* Number of notifications all sinks have received.
Notes == SumOver([s \in Sinks |-> Len(calls[s])], Sinks)
\* Number of set_value calls that returned normally.
Succeeded == SumOver([c \in Cells |-> hist[c].succ], Cells)

Init ==
    /\ cells = [c \in Cells |-> NoCell]
    /\ rows = [r \in Owners |-> NoRow]
    /\ calls = [s \in Sinks |-> <<>>]
    /\ hist = [c \in Cells |-> [default |-> None, succ |-> 0, noted |-> 0]]
    /\ last = NoCall

\* ---------------------------------------------------------- ColumnProperty
\* What ColumnProperty.__init__ raises.
InitRaises(property_id, value_type) ==
    IF ~Truthy(property_id) THEN "ValueError"
    ELSE IF value_type = None THEN "ValueError"
    ELSE "none"

\* The object ColumnProperty.__init__ leaves behind when it returns.
NewCell(property_id, read_only, read_only_change_allowed, nullable, default_value, value_type) ==
    [_property_id |-> property_id,
     _read_only |-> read_only,
     _read_only_change_allowed |-> read_only_change_allowed,
     _nullable |-> nullable,
     _value |-> default_value,
     _type |-> value_type,
     _modified |-> FALSE,
     _owner |-> None]

\* One constructor call on the fresh object c with an argument tuple of Args.
ColumnPropertyInit(c, Args) ==
    /\ ~Live(c)
    /\ \E a \in Args :
         LET r == InitRaises(a.property_id, a.value_type) IN
         IF r # "none"
         THEN /\ last' = [NoCall EXCEPT !.op = "__init__", !.cell = c,
                                        !.id = a.property_id,
                                        !.vtype = a.value_type,
                                        !.raised = r, !.calls = calls]
              /\ UNCHANGED <<cells, rows, calls, hist>>
         ELSE /\ cells' = [cells EXCEPT ![c] =
                    NewCell(a.property_id, a.read_only,
                            a.read_only_change_allowed, a.nullable,
                            a.default_value, a.value_type)]
              /\ hist' = [hist EXCEPT ![c].default = a.default_value]
              /\ last' = [NoCall EXCEPT !.op = "__init__", !.cell = c,
                                        !.id = a.property_id,
                                        !.vtype = a.value_type,
                                        !.arg = a.default_value, !.calls = calls]
              /\ UNCHANGED <<rows, calls>>

get_value(c) == cells[c]._value

is_modified(c) == cells[c]._modified

\* Mutant: the type check compares type(value) with the declared type.
SetValueRaises_ExactType(p, value) ==
    IF p._read_only THEN "ReadOnlyError"
    ELSE IF ~p._nullable /\ value = None THEN "NotNullableError"
    ELSE IF value # None /\ TypeOf(value) # p._type THEN "TypeError"
    ELSE "none"

\* Mutant: the read-only check is missing.
SetValueRaises_NoReadOnly(p, value) ==
    IF ~p._nullable /\ value = None THEN "NotNullableError"
    ELSE IF value # None /\ ~IsInstance(value, p._type) THEN "TypeError"
    ELSE "none"

\* Mutant: the nullability check is missing.
SetValueRaises_NoNullable(p, value) ==
    IF p._read_only THEN "ReadOnlyError"
    ELSE IF value # None /\ ~IsInstance(value, p._type) THEN "TypeError"
    ELSE "none"

\* Mutant: the type check is missing.
SetValueRaises_NoType(p, value) ==
    IF p._read_only THEN "ReadOnlyError"
    ELSE IF ~p._nullable /\ value = None THEN "NotNullableError"
    ELSE "none"

\* Mutant: the nullability check comes before the read-only check.
SetValueRaises_NullableFirst(p, value) ==
    IF ~p._nullable /\ value = None THEN "NotNullableError"
    ELSE IF p._read_only THEN "ReadOnlyError"
    ELSE IF value # None /\ ~IsInstance(value, p._type) THEN "TypeError"
    ELSE "none"

\* What set_value raises on a property object for an argument.
SetValueRaises(p, value) ==
    IF p._read_only THEN "ReadOnlyError"
    ELSE IF ~p._nullable /\ value = None THEN "NotNullableError"
    ELSE IF value # None /\ ~IsInstance(value, p._type) THEN "TypeError"
    ELSE "none"

\* RowItem.notify_change: the container records one call with the row.
notify_change(r) == [calls EXCEPT ![rows[r].container] = Append(@, r)]

\* Mutant: the flag records whether the value differs from the old one.
Stored_FlagOnChange(p, value) ==
    [p EXCEPT !._value = value, !._modified = (value # p._value)]
\* The property object after the two assignments of a successful set_value.
Stored(p, value) == [p EXCEPT !._value = value, !._modified = TRUE]

\* Mutant: the owner is told only when the value differs from the old one.
Notified_OnChange(p, value) ==
    IF p._owner # None /\ value # p._value THEN notify_change(p._owner)
    ELSE calls
\* The sinks after the last statement of a successful set_value on p.
Notified(p, value) ==
    IF p._owner # None THEN notify_change(p._owner) ELSE calls

set_value(c, value) ==
    /\ Live(c)
    /\ LET p == cells[c]
           r == SetValueRaises(p, value) IN
       /\ last' = [NoCall EXCEPT !.op = "set_value", !.cell = c, !.arg = value,
                                 !.raised = r, !.pre = p, !.calls = calls]
       /\ IF r # "none"
          THEN UNCHANGED <<cells, rows, calls, hist>>
          ELSE /\ Succeeded < MaxCalls
               /\ cells' = [cells EXCEPT ![c] = Stored(p, value)]
               /\ calls' = Notified(p, value)
               /\ hist' = [hist EXCEPT ![c].succ = @ + 1,
                              ![c].noted = IF p._owner # None THEN @ + 1 ELSE @]
               /\ UNCHANGED rows

set_owner(c, owner) ==
    /\ Live(c)
    /\ owner = None \/ (owner \in Owners /\ LiveRow(owner))
    /\ cells' = [cells EXCEPT ![c]._owner = owner]
    /\ last' = [NoCall EXCEPT !.op = "set_owner", !.cell = c, !.calls = calls]
    /\ UNCHANGED <<rows, calls, hist>>

\* ------------------------------------------------------------------ RowItem
Range(s) == {s[i] : i \in 1..Len(s)}

\* The property lists of at most MaxProps entries over the objects of C.
PropLists(C) == UNION {[1..n -> C] : n \in 0..MaxProps}

\* Mutant: a property that already has an owner keeps it.
Attached_KeepOwner(properties, r) ==
    [c \in Cells |->
        IF c \in Range(properties) /\ cells[c]._owner = None
        THEN [cells[c] EXCEPT !._owner = r]
        ELSE cells[c]]
\* The property objects after RowItem.__init__ called set_owner on each entry.
Attached(properties, r) ==
    [c \in Cells |->
        IF c \in Range(properties)
        THEN [cells[c] EXCEPT !._owner = r]
        ELSE cells[c]]

\* RowItem.__init__ on the fresh object r, with properties over the cells C.
RowItemInit(r, C) ==
    /\ ~LiveRow(r)
    /\ \E container \in Sinks, properties \in PropLists(C) :
         /\ \A c \in Range(properties) : Live(c)
         /\ rows' = [rows EXCEPT ![r] = [container |-> container,
                                         row_id |-> "row_id",
                                         properties |-> properties]]
         /\ cells' = Attached(properties, r)
         /\ last' = [NoCall EXCEPT !.op = "RowItem", !.cell = r, !.calls = calls]
         /\ UNCHANGED <<calls, hist>>

\* ----------------------------------------------------------- specifications
\* Every argument tuple of ColumnProperty.__init__.
AllArgs ==
    [property_id : PropertyIds, read_only : BOOLEAN,
     read_only_change_allowed : BOOLEAN, nullable : BOOLEAN,
     default_value : Values, value_type : ValueTypes]

\* One property, every constructor argument, two rows and two containers.
OneCell == {"c1"}

Next ==
    \/ \E c \in OneCell : ColumnPropertyInit(c, AllArgs)
    \/ \E c \in OneCell, value \in Values : set_value(c, value)
    \/ \E c \in OneCell, owner \in Owners \cup {None} : set_owner(c, owner)
    \/ \E r \in Owners : RowItemInit(r, OneCell)

Spec == Init /\ [][Next]_vars

\* Two properties shared by two rows; the constructor arguments are those of
\* test_set_value_success (NAME, writable, nullable, default Ville, str).
TestArgs ==
    [property_id : {"NAME"}, read_only : {FALSE},
     read_only_change_allowed : {TRUE}, nullable : {TRUE},
     default_value : {"Ville"}, value_type : {"str"}]

NextRows ==
    \/ \E c \in Cells : ColumnPropertyInit(c, TestArgs)
    \/ \E c \in Cells, value \in {"Kalle"} : set_value(c, value)
    \/ \E c \in Cells, owner \in Owners \cup {None} : set_owner(c, owner)
    \/ \E r \in Owners : RowItemInit(r, Cells)

SpecRows == Init /\ [][NextRows]_vars

\* ------------------------------------------------------------------ claims
\* The last call was set_value on a live property.
SetValueCalled == last.op = "set_value"
\* The last call left the property and every sink as they were before it.
NothingChanged == cells[last.cell] = last.pre /\ calls = last.calls
\* Number of successful set_value calls made while an owner was attached.
Noted == SumOver([c \in Cells |-> hist[c].noted], Cells)

\* C1: on a writable, nullable property attached to an owner, set_value(x) with
\* x an instance of the declared type returns normally; get_value() is then x,
\* is_modified() is true, and the owner's container got exactly one more
\* notification, with the owner as its argument (no other sink got any).
C1_WritableSetSucceeds ==
    (/\ SetValueCalled
     /\ ~last.pre._read_only
     /\ last.pre._nullable
     /\ last.pre._owner # None
     /\ last.arg # None
     /\ IsInstance(last.arg, last.pre._type))
    => /\ last.raised = "none"
       /\ get_value(last.cell) = last.arg
       /\ is_modified(last.cell)
       /\ calls = [last.calls EXCEPT ![rows[last.pre._owner].container] =
                                        Append(@, last.pre._owner)]

\* C1 witness: an int property of a row accepted the bool value True.
C1_Witness ==
    /\ SetValueCalled
    /\ ~last.pre._read_only /\ last.pre._nullable
    /\ last.pre._owner # None
    /\ last.pre._type = "int" /\ last.arg = "True"
    /\ last.raised = "none"
    /\ Notes = 1

\* C2: on a read-only property every set_value call raises ReadOnlyError,
\* whatever the argument; the value stays the construction-time default, the
\* modified flag stays false and no sink has received a notification.
C2_ReadOnlyNeverChanges ==
    \A c \in OneCell :
        (Live(c) /\ cells[c]._read_only)
        => /\ get_value(c) = hist[c].default
           /\ ~is_modified(c)
           /\ \A s \in Sinks : calls[s] = <<>>
           /\ (SetValueCalled /\ last.cell = c) => last.raised = "ReadOnlyError"

\* C2 witness: a read-only str property of a row was given a value of the
\* wrong type.
C2_Witness ==
    /\ SetValueCalled
    /\ last.pre._read_only
    /\ last.pre._owner # None
    /\ last.pre._type = "str" /\ last.arg = "7"
    /\ last.raised = "ReadOnlyError"

\* C3 as stated: on every non-nullable property set_value(None) raises
\* NotNullableError and changes nothing.
C3_Original ==
    (SetValueCalled /\ ~last.pre._nullable /\ last.arg = None)
    => (last.raised = "NotNullableError" /\ NothingChanged)

\* C3 amended: on every non-nullable property that is not read-only,
\* set_value(None) raises NotNullableError, leaves value and modified as they
\* were and sends no notification.
C3_NotNullableRejectsNone ==
    (SetValueCalled /\ ~last.pre._nullable /\ ~last.pre._read_only
        /\ last.arg = None)
    => (last.raised = "NotNullableError" /\ NothingChanged)

\* C3 witness: a writable non-nullable property of a row was given None.
C3_Witness ==
    /\ SetValueCalled
    /\ ~last.pre._nullable /\ ~last.pre._read_only
    /\ last.pre._owner # None
    /\ last.arg = None
    /\ last.raised = "NotNullableError"

\* C4 as stated: on every property set_value(x) with a non-None x that is no
\* instance of the declared type raises TypeError and changes nothing.
C4_Original ==
    (SetValueCalled /\ last.arg # None
        /\ ~IsInstance(last.arg, last.pre._type))
    => (last.raised = "TypeError" /\ NothingChanged)

\* C4 amended: on every property that is not read-only, set_value(x) with a
\* non-None x that is no instance of the declared type raises TypeError,
\* leaves value and modified as they were and sends no notification.
C4_WrongTypeRejected ==
    (SetValueCalled /\ ~last.pre._read_only /\ last.arg # None
        /\ ~IsInstance(last.arg, last.pre._type))
    => (last.raised = "TypeError" /\ NothingChanged)

\* C4 witness: a writable str property of a row, already modified, was given
\* an int.
C4_Witness ==
    /\ SetValueCalled
    /\ ~last.pre._read_only
    /\ last.pre._owner # None
    /\ last.pre._modified
    /\ last.pre._type = "str" /\ last.arg = "7"
    /\ last.raised = "TypeError"

\* C5: set_value reports the first failing check in the order read-only,
\* nullability, type: ReadOnlyError whenever the property is read-only,
\* NotNullableError only on a writable property, TypeError only when the
\* read-only and the nullability check both pass.
C5_CheckOrder ==
    SetValueCalled
    => LET p == last.pre
           nullFails == ~p._nullable /\ last.arg = None
           typeFails == last.arg # None /\ ~IsInstance(last.arg, p._type)
       IN  /\ p._read_only => last.raised = "ReadOnlyError"
           /\ last.raised = "ReadOnlyError" => p._read_only
           /\ last.raised = "NotNullableError" => (~p._read_only /\ nullFails)
           /\ last.raised = "TypeError"
                => (~p._read_only /\ ~nullFails /\ typeFails)
           /\ last.raised = "none"
                => (~p._read_only /\ ~nullFails /\ ~typeFails)

\* C5 witness: a read-only, non-nullable property was given None and raised
\* ReadOnlyError.
C5_Witness ==
    /\ SetValueCalled
    /\ last.pre._read_only /\ ~last.pre._nullable
    /\ last.arg = None
    /\ last.raised = "ReadOnlyError"

\* C6: in every reachable state the stored value of a property is None only
\* if the property is nullable, and a value that is not None is an instance
\* of the declared type.
C6_ValueSatisfiesConstraints ==
    \A c \in OneCell :
        Live(c)
        => /\ get_value(c) = None => cells[c]._nullable
           /\ get_value(c) # None => IsInstance(get_value(c), cells[c]._type)

\* C7: the notifications received equal the successful set_value calls made
\* while an owner was attached; a successful call with the value the property
\* already holds still sets modified and sends one more notification, and a
\* failed call sends none.
C7_OneNotificationPerSuccess ==
    /\ Notes = Noted
    /\ SetValueCalled
       => IF last.raised = "none"
          THEN /\ is_modified(last.cell)
               /\ last.pre._owner # None
                    => calls = [last.calls EXCEPT
                                  ![rows[last.pre._owner].container] =
                                     Append(@, last.pre._owner)]
          ELSE calls = last.calls

\* C7 witness: the second successful set_value('Kalle') in a row on a property
\* of a row; the sinks hold two notifications.
C7_Witness ==
    /\ SetValueCalled
    /\ last.raised = "none"
    /\ last.arg = "Kalle" /\ last.pre._value = "Kalle" /\ last.pre._modified
    /\ last.pre._owner # None
    /\ hist[last.cell].succ = 2
    /\ Notes = 2

\* C8: is_modified() is false after construction and is true exactly when a
\* set_value call on the property has succeeded; no later call, failed or
\* not, and no set_owner turns it back to false.
C8_ModifiedIffSucceeded ==
    \A c \in OneCell :
        Live(c) => (is_modified(c) <=> hist[c].succ >= 1)

\* C8 witness: a modified property whose last set_value call failed.
C8_Witness ==
    /\ SetValueCalled
    /\ last.raised = "TypeError"
    /\ is_modified(last.cell)
    /\ hist[last.cell].succ = 1

\* C9: RowItem.__init__ makes the new row the owner of every property it is
\* given; a successful set_value sends one notification to the container of
\* the row the property is attached to, with that row as the argument, and
\* none when no owner is attached; no other container hears of it.
C9_OwnerForwarding ==
    /\ last.op = "RowItem"
       => \A c \in Range(rows[last.cell].properties) :
              cells[c]._owner = last.cell
    /\ (SetValueCalled /\ last.raised = "none")
       => IF last.pre._owner = None
          THEN calls = last.calls
          ELSE LET owner == last.pre._owner
                   sink == rows[owner].container
               IN  /\ owner \in Owners
                   /\ calls[sink] = Append(last.calls[sink], owner)
                   /\ \A s \in Sinks \ {sink} : calls[s] = last.calls[s]

\* C9 witness: a property listed by two rows with different containers was
\* set; only the container of the row attached last was notified.
C9_Witness ==
    /\ SetValueCalled
    /\ last.raised = "none"
    /\ last.pre._owner # None
    /\ \E r \in Owners \ {last.pre._owner} :
          /\ LiveRow(r)
          /\ last.cell \in Range(rows[r].properties)
          /\ last.cell \in Range(rows[last.pre._owner].properties)
          /\ rows[r].container # rows[last.pre._owner].container
          /\ calls[rows[r].container] = <<>>
          /\ calls[rows[last.pre._owner].container] = <<last.pre._owner>>

\* C10: ColumnProperty.__init__ raises ValueError exactly when the id is None
\* or empty or the value type is None, and then creates no object; otherwise
\* it yields a property with modified false, no owner, and get_value() equal
\* to the default given.
C10_ConstructorValidation ==
    last.op = "__init__"
    => /\ last.raised = "ValueError"
            <=> (last.id \in {None, ""} \/ last.vtype = None)
       /\ last.raised = "ValueError" => ~Live(last.cell)
       /\ last.raised # "ValueError"
            => /\ last.raised = "none"
               /\ Live(last.cell)
               /\ ~is_modified(last.cell)
               /\ cells[last.cell]._owner = None
               /\ get_value(last.cell) = last.arg

\* C10 witness: the constructor refused an empty id given with a value type.
C10_Witness ==
    /\ last.op = "__init__"
    /\ last.id = "" /\ last.vtype = "str"
    /\ last.raised = "ValueError"
    /\ ~Live(last.cell)

====
